---- MODULE Spec2Model ----
(***************************************************************************)
(* Bulls and Cows (Projekt_02-a4py.py): the guess validator and scorer,    *)
(* the round loop of BullsAndCowsGame.play, the statistics store GameStats *)
(* and the menus of GameManager.                                           *)
(*                                                                         *)
(* A Python str is modelled as a sequence of one-character strings.  The   *)
(* character "u0663" stands for ARABIC-INDIC DIGIT THREE and "u00b2" for   *)
(* SUPERSCRIPT TWO, two of the non-ASCII characters for which str.isdigit  *)
(* answers True.                                                           *)
(***************************************************************************)
EXTENDS Integers, Sequences, FiniteSets, TLC

VARIABLES
    pc,          \* where the program is waiting or what it is computing
    users,       \* UserManager.users
    users_file,  \* the document in users.json
    stats,       \* GameStats.stats
    stats_file,  \* the document in stats.json
    username,    \* argument of the running main_menu, None outside of it
    entered,     \* <<the sign_up or log_in call just made>>: its arguments and value, else <<>>
    difficulty,  \* GameManager.difficulty
    choice,      \* set_difficulty: local, the stripped line of the call just made, else None
    num_digits,  \* play: argument
    secret,      \* play: local
    number,      \* generate_secret_number: local, the last sample, <<>> outside of it
    attempts,    \* play: local
    start_time,  \* play: local
    guess,       \* play: local, the stripped input line
    valid,       \* value of the last is_valid_guess call
    bulls,       \* play: local
    cows,        \* play: local
    notices,     \* how many notices of each kind the running round has printed
    outcome,     \* <<attempts, duration>> returned by play, <<>> for (None, None)
    recent,      \* <<the get_recent_stats call just made>>: its arguments and value, else <<>>
    now,         \* the clock, in ticks
    calls,       \* history: the add_game_result calls made so far
    won_rounds   \* history: per logged-in username, the attempts of each round won

vars == <<pc, users, users_file, stats, stats_file, username, entered, difficulty,
          choice, num_digits, secret, number, attempts, start_time, guess, valid, bulls, cows,
          notices, outcome, recent, now, calls, won_rounds>>

\* None where a number or a truth value is expected
None == "None"

\* None where a str is expected
NoneStr == <<"None">>

\* play has printed nothing yet: "Invalid guess. Try again.", "b Bulls, c Cows",
\* "Congratulations! ..." and "Thanks for playing!"
NoNotices == [invalid |-> 0, feedback |-> 0, congratulations |-> 0, thanks |-> 0]

\* one more notice of the kind
Printed(n, kind) == [n EXCEPT ![kind] = @ + 1]

\* input lines answered so far in the round
Answered(n) == n.invalid + n.feedback + n.thanks

-----------------------------------------------------------------------------
(* Bounds *)

MaxEvalDigit == 2      \* digits 0..MaxEvalDigit in the strings given to the pure functions
MaxEvalLen == 3        \* longest string given to the pure functions
TicksPerDay == 2       \* clock ticks in one day
MaxStatsNow == 3       \* last clock value when the statistics store is called on its own
MaxStatsDays == 1      \* largest days argument given to get_recent_stats on its own
MaxStatsRecords == 2   \* most records stored when the statistics store is called on its own
MaxStatsAttempts == 2  \* largest attempts value given to add_game_result on its own
MaxFirstDigit == 1     \* random.sample draws the runs of digits that start at 0..MaxFirstDigit
MaxInputs == 2         \* guesses entered in one round, the closing q not counted
MaxRounds == 1         \* rounds won by logged-in users in one run of the program
MaxNow == 1            \* last clock value in a run of the program

-----------------------------------------------------------------------------
(* Python str operations used by the program *)

DigitChar == <<"0", "1", "2", "3", "4", "5", "6", "7", "8", "9">>

AsciiDigits == {DigitChar[i] : i \in 1..10}

UnicodeDigits == {"u0663", "u00b2"}

Whitespace == {" "}

\* str(d) for one digit d of range(10)
str(d) == DigitChar[d + 1]

\* ''.join(map(str, number))
join(digits) == [i \in 1..Len(digits) |-> str(digits[i])]

\* str.isdigit: non-empty and every character has the Unicode digit property
isdigit(s) == Len(s) > 0 /\ \A i \in 1..Len(s) : s[i] \in AsciiDigits \cup UnicodeDigits

\* set(s)
set(s) == {s[i] : i \in 1..Len(s)}

\* str.lower, on the characters of the model only "Q" has another lower case
lower(s) == [i \in 1..Len(s) |-> IF s[i] = "Q" THEN "q" ELSE s[i]]

RECURSIVE lstrip(_)
lstrip(s) == IF Len(s) > 0 /\ Head(s) \in Whitespace THEN lstrip(Tail(s)) ELSE s

RECURSIVE rstrip(_)
rstrip(s) ==
    IF Len(s) > 0 /\ s[Len(s)] \in Whitespace
    THEN rstrip(SubSeq(s, 1, Len(s) - 1))
    ELSE s

\* str.strip
strip(s) == rstrip(lstrip(s))

Min(a, b) == IF a <= b THEN a ELSE b

\* zip(a, b) yields the positions both strings have
zip(a, b) == 1..Min(Len(a), Len(b))

-----------------------------------------------------------------------------
(* BullsAndCowsGame: the pure functions *)

is_valid_guess(g, n) == isdigit(g) /\ Len(g) = n /\ Cardinality(set(g)) = Len(g)

evaluate_guess_nosub(s, g) ==
    LET b == Cardinality({i \in zip(s, g) : s[i] = g[i]})
        c == Cardinality({i \in 1..Len(g) : g[i] \in set(s)})
    IN  <<b, c>>

evaluate_guess_swapped(s, g) ==
    LET b == Cardinality({i \in zip(s, g) : s[i] = g[i]})
        c == Cardinality({i \in 1..Len(g) : g[i] \in set(s)}) - b
    IN  <<c, b>>

evaluate_guess(s, g) ==
    LET b == Cardinality({i \in zip(s, g) : s[i] = g[i]})
        c == Cardinality({i \in 1..Len(g) : g[i] \in set(s)}) - b
    IN  <<b, c>>

-----------------------------------------------------------------------------
(* Clock values, datetime and JSON documents *)

\* datetime.isoformat: the date part and the time-of-day part of a clock value
isoformat(t) == [date |-> t \div TicksPerDay, time |-> t % TicksPerDay]

\* datetime.fromisoformat
fromisoformat(iso) == iso.date * TicksPerDay + iso.time

\* timedelta(days=d)
timedelta(d) == d * TicksPerDay

\* an empty dict
EmptyDict == [k \in {} |-> None]

\* json.dump of a dict: the members of the JSON object
json_dump(d) == {<<k, d[k]>> : k \in DOMAIN d}

\* json.load of a JSON object
json_load(doc) == [k \in {m[1] : m \in doc} |-> (CHOOSE m \in doc : m[1] = k)[2]]

\* save_users: the document in users.json after it, self.users being us
save_users_skipped(us) == users_file

save_users(us) == json_dump(us)

\* save_stats: the document in stats.json after it, self.stats being st
save_stats_skipped(st) == stats_file

save_stats(st) == json_dump(st)

-----------------------------------------------------------------------------
(* GameStats *)

\* self.stats after add_game_result(u, a, d) at clock value t
add_game_result_replace(st, u, a, d, t) ==
    [k \in DOMAIN st \cup {u} |->
        IF k = u
        THEN <<[attempts |-> a, duration |-> d, timestamp |-> isoformat(t)]>>
        ELSE st[k]]

add_game_result_prepend(st, u, a, d, t) ==
    LET old == IF u \in DOMAIN st THEN st[u] ELSE <<>>
    IN  [k \in DOMAIN st \cup {u} |->
            IF k = u
            THEN <<[attempts |-> a, duration |-> d, timestamp |-> isoformat(t)]>> \o old
            ELSE st[k]]

add_game_result(st, u, a, d, t) ==
    LET old == IF u \in DOMAIN st THEN st[u] ELSE <<>>
    IN  [k \in DOMAIN st \cup {u} |->
            IF k = u
            THEN Append(old, [attempts |-> a, duration |-> d, timestamp |-> isoformat(t)])
            ELSE st[k]]

get_recent_stats_inclusive(st, u, days, t) ==
    IF u \notin DOMAIN st THEN <<>>
    ELSE IF days > 0
         THEN LET cutoff == t - timedelta(days)
                  Keep(game) == fromisoformat(game.timestamp) >= cutoff
              IN  SelectSeq(st[u], Keep)
         ELSE st[u]

get_recent_stats_always_filter(st, u, days, t) ==
    IF u \notin DOMAIN st THEN <<>>
    ELSE LET cutoff == t - timedelta(days)
             Keep(game) == fromisoformat(game.timestamp) > cutoff
         IN  SelectSeq(st[u], Keep)

\* the value get_recent_stats(u, days) returns at clock value t
get_recent_stats(st, u, days, t) ==
    IF u \notin DOMAIN st THEN <<>>
    ELSE IF days > 0
         THEN LET cutoff == t - timedelta(days)
                  Keep(game) == fromisoformat(game.timestamp) > cutoff
              IN  SelectSeq(st[u], Keep)
         ELSE st[u]

-----------------------------------------------------------------------------
(* The pure functions called on their own, on every string within the bounds *)

RECURSIVE StringsOver(_, _)
StringsOver(chars, n) ==
    IF n = 0 THEN {<<>>}
    ELSE LET shorter == StringsOver(chars, n - 1)
         IN  shorter \cup {Append(s, c) : s \in {t \in shorter : Len(t) = n - 1}, c \in chars}

EvalDigitChars == {str(d) : d \in 0..MaxEvalDigit}

EvalChars == EvalDigitChars \cup {"a", " ", "u0663"}

\* the two scored pairs the documentation names
ExamplePairs ==
    { <<(<<"1", "2", "3", "4">>), (<<"1", "2", "4", "3">>)>>,
      <<(<<"0", "7", "1">>), (<<"7", "1", "0">>)>> }

EvalPairs ==
    (StringsOver(EvalDigitChars, MaxEvalLen) \X StringsOver(EvalDigitChars, MaxEvalLen))
        \cup ExamplePairs

NoSession ==
    /\ users = EmptyDict /\ users_file = json_dump(EmptyDict)
    /\ stats = EmptyDict /\ stats_file = json_dump(EmptyDict)
    /\ username = NoneStr /\ difficulty = 4 /\ number = <<>>
    /\ attempts = None /\ start_time = None /\ notices = NoNotices
    /\ outcome = <<>> /\ recent = <<>> /\ entered = <<>> /\ choice = NoneStr /\ now = 0
    /\ calls = <<>> /\ won_rounds = EmptyDict

InitEval ==
    /\ NoSession
    /\ valid = None /\ bulls = None /\ cows = None
    /\ \/ /\ pc = "is_valid_guess"
          /\ secret = NoneStr
          /\ guess \in StringsOver(EvalChars, MaxEvalLen)
          /\ num_digits \in 1..(MaxEvalLen + 1)
       \/ /\ pc = "evaluate_guess"
          /\ \E p \in EvalPairs : secret = p[1] /\ guess = p[2]
          /\ num_digits = Len(secret)

CallIsValidGuess ==
    /\ pc = "is_valid_guess"
    /\ valid' = is_valid_guess(guess, num_digits)
    /\ pc' = "is_valid_guess_returned"
    /\ UNCHANGED <<users, users_file, stats, stats_file, username, difficulty,
                   num_digits, secret, number, attempts, start_time, guess, bulls, cows,
                   notices, outcome, recent, entered, choice, now, calls, won_rounds>>

CallEvaluateGuess ==
    /\ pc = "evaluate_guess"
    /\ bulls' = evaluate_guess(secret, guess)[1]
    /\ cows' = evaluate_guess(secret, guess)[2]
    /\ pc' = "evaluate_guess_returned"
    /\ UNCHANGED <<users, users_file, stats, stats_file, username, difficulty,
                   num_digits, secret, number, attempts, start_time, guess, valid,
                   notices, outcome, recent, entered, choice, now, calls, won_rounds>>

NextEval == CallIsValidGuess \/ CallEvaluateGuess

SpecEval == InitEval /\ [][NextEval]_vars

Distinct(s) == \A i, j \in 1..Len(s) : i # j => s[i] # s[j]

\* C8: is_valid_guess(guess, numDigits) is true exactly when guess is made of the
\* decimal digits 0-9 only, has numDigits characters and no character twice.
C8_ValidIffDistinctDecimalDigits ==
    pc = "is_valid_guess_returned" =>
        (valid <=> /\ \A i \in 1..Len(guess) : guess[i] \in AsciiDigits
                   /\ Len(guess) = num_digits
                   /\ Distinct(guess))

EqualLengthDistinct == Len(secret) = Len(guess) /\ Distinct(secret) /\ Distinct(guess)

\* C9: for a secret and a guess of equal length, each with pairwise distinct
\* digits, bulls >= 0, cows >= 0, bulls + cows <= length, and bulls = length
\* exactly when the guess is the secret.
C9_ScoreBounds ==
    (pc = "evaluate_guess_returned" /\ EqualLengthDistinct) =>
        /\ bulls >= 0 /\ cows >= 0
        /\ bulls + cows <= Len(secret)
        /\ (bulls = Len(secret) <=> secret = guess)

C9_Witness ==
    /\ pc = "evaluate_guess_returned" /\ EqualLengthDistinct
    /\ Len(secret) = 3 /\ secret # guess /\ bulls = 1 /\ cows = 2

\* C10: for such a pair, bulls is the number of positions holding the same digit
\* and cows the number of guess digits found in the secret at another position;
\* secret 1234 with guess 1243 scores (2, 2), secret 071 with guess 710 scores (0, 3).
C10_ScoreCounts ==
    (pc = "evaluate_guess_returned" /\ EqualLengthDistinct) =>
        /\ bulls = Cardinality({i \in 1..Len(secret) : secret[i] = guess[i]})
        /\ cows = Cardinality({i \in 1..Len(guess) :
                      \E j \in 1..Len(secret) : j # i /\ secret[j] = guess[i]})
        /\ (secret = <<"1", "2", "3", "4">> /\ guess = <<"1", "2", "4", "3">>
                => bulls = 2 /\ cows = 2)
        /\ (secret = <<"0", "7", "1">> /\ guess = <<"7", "1", "0">>
                => bulls = 0 /\ cows = 3)

C10_Witness ==
    /\ pc = "evaluate_guess_returned"
    /\ secret = <<"0", "7", "1">> /\ guess = <<"7", "1", "0">>
    /\ bulls = 0 /\ cows = 3

-----------------------------------------------------------------------------
(* GameStats called on its own: any add_game_result and get_recent_stats calls *)

Guest == <<"g", "u", "e", "s", "t">>

Player == <<"p", "l", "a", "y", "e", "r">>

Player1 == <<"p", "l", "a", "y", "e", "r", "1">>

StatsUsers == {Player, Player1}

\* the durations given to add_game_result on its own
StatsDurations == {0}

RECURSIVE SumLen(_, _)
SumLen(d, keys) ==
    IF keys = {} THEN 0
    ELSE LET k == CHOOSE x \in keys : TRUE
         IN  Len(d[k]) + SumLen(d, keys \ {k})

\* number of records in a dict of lists
TotalRecords(d) == SumLen(d, DOMAIN d)

InitStats ==
    /\ pc = "GameStats"
    /\ stats_file = json_dump(EmptyDict)
    /\ stats = json_load(stats_file)
    /\ users = EmptyDict /\ users_file = json_dump(EmptyDict)
    /\ username = NoneStr /\ difficulty = 4
    /\ num_digits = None /\ secret = NoneStr /\ number = <<>>
    /\ attempts = None /\ start_time = None
    /\ guess = NoneStr /\ valid = None /\ bulls = None /\ cows = None
    /\ notices = NoNotices /\ outcome = <<>>
    /\ recent = <<>> /\ entered = <<>> /\ choice = NoneStr
    /\ now = 0 /\ calls = <<>> /\ won_rounds = EmptyDict

Tick(last) ==
    /\ now < last
    /\ now' = now + 1
    /\ recent' = <<>> /\ entered' = <<>> /\ choice' = NoneStr
    /\ UNCHANGED <<pc, users, users_file, stats, stats_file, username, difficulty,
                   num_digits, secret, number, attempts, start_time, guess, valid, bulls, cows,
                   notices, outcome, calls, won_rounds>>

TickStats == Tick(MaxStatsNow)

CallAddGameResult ==
    /\ TotalRecords(stats) < MaxStatsRecords
    /\ \E u \in StatsUsers, a \in 1..MaxStatsAttempts, d \in StatsDurations :
          /\ stats' = add_game_result(stats, u, a, d, now)
          /\ calls' = Append(calls, [username |-> u, attempts |-> a, duration |-> d,
                                     at |-> now])
    /\ stats_file' = save_stats(stats')
    /\ recent' = <<>> /\ entered' = <<>> /\ choice' = NoneStr
    /\ UNCHANGED <<pc, users, users_file, username, difficulty, num_digits, secret, number,
                   attempts, start_time, guess, valid, bulls, cows, notices, outcome,
                   now, won_rounds>>

CallGetRecentStats_setdefault ==
    /\ \E u \in StatsUsers, days \in 0..MaxStatsDays :
          /\ recent' = <<[username |-> u, days |-> days,
                         result |-> get_recent_stats(stats, u, days, now)]>>
          /\ stats' = [k \in DOMAIN stats \cup {u} |->
                          IF k \in DOMAIN stats THEN stats[k] ELSE <<>>]
    /\ UNCHANGED <<pc, users, users_file, stats_file, username, entered, choice, difficulty,
                   num_digits, secret, number, attempts, start_time, guess, valid, bulls,
                   cows, notices, outcome, now, calls, won_rounds>>

CallGetRecentStats ==
    /\ \E u \in StatsUsers, days \in 0..MaxStatsDays :
          recent' = <<[username |-> u, days |-> days,
                      result |-> get_recent_stats(stats, u, days, now)]>>
    /\ UNCHANGED <<pc, users, users_file, stats, stats_file, username, entered, choice,
                   difficulty, num_digits, secret, number, attempts, start_time, guess,
                   valid, bulls, cows, notices, outcome, now, calls, won_rounds>>

NextStats == TickStats \/ CallAddGameResult \/ CallGetRecentStats

SpecStats == InitStats /\ [][NextStats]_vars

\* history: the add_game_result calls made for u, oldest first
CallsFor(u) == SelectSeq(calls, LAMBDA c : c.username = u)

\* the record r is the one the call c stored
RecordOf(r, c) ==
    /\ r.attempts = c.attempts
    /\ r.duration = c.duration
    /\ r.timestamp.date * TicksPerDay + r.timestamp.time = c.at

\* C5: with days > 0 get_recent_stats returns exactly the user's records stamped
\* strictly later than (now - days), in stored order, so a record exactly days old
\* is left out; the call changes neither the store nor its file.
C5_RecentIsStrictWindow ==
    [][(recent' # <<>> /\ recent'[1].days > 0) =>
          LET call == recent'[1]
              h == CallsFor(call.username)
              inside == {i \in 1..Len(h) : h[i].at > now' - call.days * TicksPerDay}
          IN  /\ Len(call.result) = Cardinality(inside)
              /\ \A i \in inside :
                    RecordOf(call.result[Cardinality({j \in inside : j <= i})], h[i])
              /\ stats' = stats
              /\ stats_file' = stats_file]_vars

C5_Witness ==
    /\ recent # <<>>
    /\ recent[1].days = 1
    /\ Len(recent[1].result) = 1
    /\ LET h == CallsFor(recent[1].username)
       IN  /\ Len(h) = 2
           /\ h[1].at = now - TicksPerDay
           /\ h[2].at > now - TicksPerDay

\* C6: get_recent_stats(user, 0) returns every record added for the user, each
\* once, in the order of the calls, however old the records are.
C6_ZeroDaysIsFullHistory ==
    (recent # <<>> /\ recent[1].days = 0) =>
        LET h == CallsFor(recent[1].username)
        IN  /\ Len(recent[1].result) = Len(h)
            /\ \A i \in 1..Len(h) : RecordOf(recent[1].result[i], h[i])

C6_Witness ==
    /\ recent # <<>>
    /\ recent[1].days = 0
    /\ Len(recent[1].result) = 2
    /\ Len(calls) = 2
    /\ now - calls[1].at > MaxStatsDays * TicksPerDay
    /\ recent[1].result[1].attempts = 2
    /\ recent[1].result[2].attempts = 1

\* C7: for a username without an entry in the store get_recent_stats returns the
\* empty list, whatever days >= 0 is, and the store gets no entry for that username.
C7_UnknownUserIsEmpty ==
    [][(recent' # <<>> /\ recent'[1].username \notin DOMAIN stats) =>
          /\ recent'[1].result = <<>>
          /\ recent'[1].username \notin DOMAIN stats'
          /\ stats_file' = stats_file]_vars

C7_Witness ==
    /\ recent # <<>>
    /\ recent[1].username \notin DOMAIN stats
    /\ DOMAIN stats # {}
    /\ recent[1].days > 0
    /\ recent[1].result = <<>>

-----------------------------------------------------------------------------
(* UserManager *)

validate_username_any(u) == TRUE

validate_username(u) == Len(u) >= 6

validate_password(p) == Len(p) >= 6 /\ \E i \in 1..Len(p) : isdigit(<<p[i]>>)

\* the value sign_up returns
sign_up_ok_overwrite(us, u, p) == validate_username(u) /\ validate_password(p)

sign_up_ok(us, u, p) == u \notin DOMAIN us /\ validate_username(u) /\ validate_password(p)

\* self.users after sign_up(u, p)
sign_up(us, u, p) ==
    IF sign_up_ok(us, u, p)
    THEN [k \in DOMAIN us \cup {u} |->
            IF k = u THEN [password |-> p, games |-> <<>>] ELSE us[k]]
    ELSE us

\* the value log_in returns
log_in_any_password(us, u, p) == u \in DOMAIN us

log_in(us, u, p) == u \in DOMAIN us /\ us[u].password = p

-----------------------------------------------------------------------------
(* The lines typed at the prompts *)

Q == <<"q">>

Secret1 == <<"s", "e", "c", "r", "e", "t", "1">>

Secret == <<"s", "e", "c", "r", "e", "t">>

Pw1 == <<"p", "w", "1">>

UsernameLines == {Q, <<" ", "Q", " ">>, Guest, Player, Player1}

PasswordLines == {Secret1, Secret, Pw1}

DifficultyLines == {Q, <<"Q">>, <<"1">>, <<"2">>, <<" ", "3">>, <<"4">>}

\* the values of sample(range(10), n) the model draws
Samples(n) == {[i \in 1..n |-> (k + i - 1) % 10] : k \in 0..MaxFirstDigit}

\* s with its last two characters exchanged
SwapLast(s) ==
    [i \in 1..Len(s) |-> IF i = Len(s) THEN s[Len(s) - 1]
                         ELSE IF i = Len(s) - 1 THEN s[Len(s)] ELSE s[i]]

\* s with 0 for its first digit
ZeroFirst(s) == [i \in 1..Len(s) |-> IF i = 1 THEN "0" ELSE s[i]]

\* the lines typed at the guess prompt of a round with n digits: the runs that are
\* sampled, as they are and padded with blanks, the runs that are returned as the
\* secret also with the last two digits exchanged and with 0 for the first digit,
\* a run one digit short, a line of letters and the cancellation
GuessLines(n) ==
    UNION {{join(x), <<" ">> \o join(x) \o <<" ">>} : x \in Samples(n)}
        \cup UNION {{SwapLast(join(x)), ZeroFirst(join(x))} :
                        x \in {y \in Samples(n) : y[1] # 0}}
        \cup {[i \in 1..(n - 1) |-> str(i)], <<"a", "b", "c">>, Q, <<" ", "Q", " ">>}

-----------------------------------------------------------------------------
(* BullsAndCowsGame.play and GameManager: the decisions taken on an input *)

\* play: guess.lower() == "q"
is_cancel_case_sensitive(g) == g = Q

is_cancel(g) == lower(g) = Q

\* play: attempts after a guess that is not the cancellation
next_attempts_counts_invalid(a, isvalid) == a + 1

next_attempts(a, isvalid) == IF isvalid THEN a + 1 ELSE a

\* play: bulls == num_digits
round_won_permutation(b, c, n) == b + c = n

round_won(b, c, n) == b = n

\* main_menu: username != "guest" and attempts is not None
should_record_guest_too(u, out) == out # <<>>

should_record(u, out) == u # Guest /\ out # <<>>

\* set_difficulty: self.difficulty after the choice c
chosen_difficulty_default(c, current) ==
    IF c = <<"1">> THEN 3
    ELSE IF c = <<"2">> THEN 4
    ELSE IF c = <<"3">> THEN 5
    ELSE 4

chosen_difficulty(c, current) ==
    IF c = <<"1">> THEN 3
    ELSE IF c = <<"2">> THEN 4
    ELSE IF c = <<"3">> THEN 5
    ELSE current

\* main_menu: the window of the statistics view
StatsWindowDays == 30

\* generate_secret_number: number[0] != 0, the sample is returned
is_returned_any(drawn) == TRUE

is_returned(drawn) == drawn[1] # 0

-----------------------------------------------------------------------------
(* The program: GameManager().start() *)

stores == <<users, users_file, stats, stats_file>>

play_locals ==
    <<num_digits, secret, number, attempts, start_time, guess, valid, bulls, cows>>

\* rounds won so far by logged-in users
TotalWon == TotalRecords(won_rounds)

Init ==
    /\ pc = "start"
    /\ users_file = json_dump(EmptyDict)
    /\ users = json_load(users_file)
    /\ stats_file = json_dump(EmptyDict)
    /\ stats = json_load(stats_file)
    /\ username = NoneStr /\ difficulty = 4
    /\ num_digits = None /\ secret = NoneStr /\ number = <<>>
    /\ attempts = None /\ start_time = None
    /\ guess = NoneStr /\ valid = None /\ bulls = None /\ cows = None
    /\ notices = NoNotices /\ outcome = <<>>
    /\ recent = <<>> /\ entered = <<>> /\ choice = NoneStr
    /\ now = 0 /\ calls = <<>> /\ won_rounds = EmptyDict

TickProgram == pc # "terminated" /\ Tick(MaxNow)

\* the call op(u, p) just made and the value it returned
Call(op, u, p, result) == <<[op |-> op, username |-> u, password |-> p, result |-> result]>>

\* start, choice "1", with the two lines typed taken from ulines and plines
LogInFrom(ulines, plines) ==
    /\ pc = "start"
    /\ \E uline \in ulines :
          LET u == strip(uline)
          IN  IF lower(u) = Q
              THEN entered' = <<>> /\ UNCHANGED <<pc, username>>
              ELSE \E pline \in plines :
                      LET p == strip(pline)
                      IN  /\ entered' = Call("log_in", u, p, log_in(users, u, p))
                          /\ IF log_in(users, u, p)
                             THEN pc' = "main_menu" /\ username' = u
                             ELSE UNCHANGED <<pc, username>>
    /\ recent' = <<>> /\ choice' = NoneStr
    /\ UNCHANGED <<stores, difficulty, play_locals, notices, outcome, now, calls,
                   won_rounds>>

StartLogIn == LogInFrom(UsernameLines, PasswordLines)

\* start, choice "2", with the two lines typed taken from ulines and plines
SignUpFrom(ulines, plines) ==
    /\ pc = "start"
    /\ \E uline \in ulines :
          LET u == strip(uline)
          IN  IF lower(u) = Q
              THEN entered' = <<>> /\ UNCHANGED <<users, users_file>>
              ELSE \E pline \in plines :
                      LET p == strip(pline)
                      IN  /\ entered' = Call("sign_up", u, p, sign_up_ok(users, u, p))
                          /\ IF sign_up_ok(users, u, p)
                             THEN /\ users' = sign_up(users, u, p)
                                  /\ users_file' = save_users(users')
                             ELSE UNCHANGED <<users, users_file>>
    /\ recent' = <<>> /\ choice' = NoneStr
    /\ UNCHANGED <<pc, stats, stats_file, username, difficulty, play_locals, notices,
                   outcome, now, calls, won_rounds>>

StartSignUp == SignUpFrom(UsernameLines, PasswordLines)

\* start, choice "3"
StartGuest ==
    /\ pc = "start"
    /\ pc' = "main_menu"
    /\ username' = Guest
    /\ recent' = <<>> /\ entered' = <<>> /\ choice' = NoneStr
    /\ UNCHANGED <<stores, difficulty, play_locals, notices, outcome, now, calls,
                   won_rounds>>

\* start, choice "4"
StartQuit ==
    /\ pc = "start"
    /\ pc' = "terminated"
    /\ recent' = <<>> /\ entered' = <<>> /\ choice' = NoneStr
    /\ UNCHANGED <<stores, username, difficulty, play_locals, notices, outcome, now,
                   calls, won_rounds>>

\* start, any other choice: the menu is shown again
StartOther ==
    /\ pc = "start"
    /\ recent' = <<>> /\ entered' = <<>> /\ choice' = NoneStr
    /\ UNCHANGED <<pc, stores, username, difficulty, play_locals, notices, outcome, now,
                   calls, won_rounds>>

\* main_menu, choice "1": set_difficulty shows its menu and asks for the choice
MainPlay ==
    /\ pc = "main_menu"
    /\ username = Guest \/ TotalWon < MaxRounds
    /\ pc' = "set_difficulty"
    /\ recent' = <<>> /\ entered' = <<>> /\ choice' = NoneStr
    /\ UNCHANGED <<stores, username, difficulty, play_locals, notices, outcome, now,
                   calls, won_rounds>>

\* set_difficulty from its prompt on; on True main_menu calls play(self.difficulty)
SetDifficulty ==
    /\ pc = "set_difficulty"
    /\ \E line \in DifficultyLines :
          /\ choice' = strip(line)
          /\ IF lower(choice') = Q
             THEN /\ pc' = "main_menu"
                  /\ UNCHANGED <<difficulty, num_digits>>
             ELSE /\ difficulty' = chosen_difficulty(choice', difficulty)
                  /\ num_digits' = difficulty'
                  /\ pc' = "generate_secret_number"
    /\ UNCHANGED <<stores, username, secret, number, attempts, start_time, guess, valid,
                   bulls, cows, notices, outcome, recent, entered, now, calls,
                   won_rounds>>

\* generate_secret_number: one pass of its loop with the sample drawn from samples,
\* and the start of play on return
SampleFrom(samples) ==
    /\ pc = "generate_secret_number"
    /\ \E drawn \in samples :
          /\ number' = drawn
          /\ IF is_returned(drawn)
             THEN /\ secret' = join(drawn)
                  /\ attempts' = 0
                  /\ start_time' = now
                  /\ pc' = "AwaitingInput"
             ELSE UNCHANGED <<secret, attempts, start_time, pc>>
    /\ choice' = NoneStr
    /\ UNCHANGED <<stores, username, difficulty, num_digits, guess, valid, bulls, cows,
                   notices, outcome, recent, entered, now, calls, won_rounds>>

Sample == SampleFrom(Samples(num_digits))

\* won_rounds with one more round won by u in a attempts
WithWin(u, a) ==
    IF u = Guest
    THEN won_rounds
    ELSE [k \in DOMAIN won_rounds \cup {u} |->
             IF k = u
             THEN Append(IF u \in DOMAIN won_rounds THEN won_rounds[u] ELSE <<>>, a)
             ELSE won_rounds[k]]

\* play: one pass of the loop, from the input line to the next prompt or the return
Guess ==
    /\ pc = "AwaitingInput"
    /\ \E line \in GuessLines(num_digits) :
          LET g == strip(line)
          IN  /\ guess' = g
              /\ IF is_cancel(g)
                 THEN /\ notices' = Printed(notices, "thanks")
                      /\ outcome' = <<>>
                      /\ pc' = "Cancelled"
                      /\ UNCHANGED <<attempts, valid, bulls, cows, won_rounds>>
                 ELSE /\ Answered(notices) < MaxInputs
                      /\ valid' = is_valid_guess(g, num_digits)
                      /\ attempts' = next_attempts(attempts, valid')
                      /\ IF ~valid'
                         THEN /\ notices' = Printed(notices, "invalid")
                              /\ UNCHANGED <<bulls, cows, outcome, pc, won_rounds>>
                         ELSE LET score == evaluate_guess(secret, g)
                              IN  /\ bulls' = score[1]
                                  /\ cows' = score[2]
                                  /\ IF round_won(score[1], score[2], num_digits)
                                     THEN /\ notices' = Printed(Printed(notices, "feedback"),
                                                             "congratulations")
                                          /\ outcome' = <<attempts', now - start_time>>
                                          /\ won_rounds' = WithWin(username, attempts')
                                          /\ pc' = "Won"
                                     ELSE /\ notices' = Printed(notices, "feedback")
                                          /\ UNCHANGED <<outcome, pc, won_rounds>>
    /\ UNCHANGED <<stores, username, difficulty, num_digits, secret, number, start_time,
                   recent, entered, choice, now, calls>>

\* main_menu after play has returned: the result is recorded or dropped
PlayReturned ==
    /\ pc \in {"Won", "Cancelled"}
    /\ IF should_record(username, outcome)
       THEN /\ stats' = add_game_result(stats, username, outcome[1], outcome[2], now)
            /\ stats_file' = save_stats(stats')
            /\ calls' = Append(calls, [username |-> username, attempts |-> outcome[1],
                                       duration |-> outcome[2], at |-> now])
       ELSE UNCHANGED <<stats, stats_file, calls>>
    /\ pc' = "main_menu"
    /\ num_digits' = None /\ secret' = NoneStr /\ number' = <<>>
    /\ attempts' = None /\ start_time' = None
    /\ guess' = NoneStr /\ valid' = None /\ bulls' = None /\ cows' = None
    /\ notices' = NoNotices /\ outcome' = <<>>
    /\ UNCHANGED <<users, users_file, username, difficulty, recent, entered, choice, now,
                   won_rounds>>

\* main_menu, choice "2"
MainStats ==
    /\ pc = "main_menu"
    /\ IF username = Guest
       THEN recent' = <<>>
       ELSE IF Len(get_recent_stats(stats, username, 0, now)) = 0
            THEN recent' = <<[username |-> username, days |-> 0,
                             result |-> get_recent_stats(stats, username, 0, now)]>>
            ELSE recent' = <<[username |-> username, days |-> StatsWindowDays,
                             result |-> get_recent_stats(stats, username,
                                                         StatsWindowDays, now)]>>
    /\ entered' = <<>> /\ choice' = NoneStr
    /\ UNCHANGED <<pc, stores, username, difficulty, play_locals, notices, outcome, now,
                   calls, won_rounds>>

\* main_menu, choice "3"
MainLogOut_exits ==
    /\ pc = "main_menu"
    /\ pc' = "terminated"
    /\ username' = NoneStr
    /\ recent' = <<>> /\ entered' = <<>> /\ choice' = NoneStr
    /\ UNCHANGED <<stores, difficulty, play_locals, notices, outcome, now, calls,
                   won_rounds>>

MainLogOut ==
    /\ pc = "main_menu"
    /\ pc' = "start"
    /\ username' = NoneStr
    /\ recent' = <<>> /\ entered' = <<>> /\ choice' = NoneStr
    /\ UNCHANGED <<stores, difficulty, play_locals, notices, outcome, now, calls,
                   won_rounds>>

\* main_menu, any other choice: the menu is shown again
MainOther ==
    /\ pc = "main_menu"
    /\ recent' = <<>> /\ entered' = <<>> /\ choice' = NoneStr
    /\ UNCHANGED <<pc, stores, username, difficulty, play_locals, notices, outcome, now,
                   calls, won_rounds>>

Next ==
    \/ TickProgram
    \/ StartLogIn \/ StartSignUp \/ StartGuest \/ StartQuit \/ StartOther
    \/ MainPlay \/ SetDifficulty \/ Sample \/ Guess \/ PlayReturned
    \/ MainStats \/ MainLogOut \/ MainOther

Spec == Init /\ [][Next]_vars

-----------------------------------------------------------------------------
(* The round loop *)

\* the step is one pass of the loop of play: an input line has been answered
GuessStep == pc = "AwaitingInput" /\ notices' # notices

\* C1: an input that is not the cancellation and passes is_valid_guess adds exactly
\* one to attempts and is scored; the round is won exactly at such a guess with
\* bulls = num_digits, and the attempts returned are the number of valid guesses
\* of the round, at least 1.
C1_ValidGuessCountedAndScored ==
    [][/\ (pc = "generate_secret_number" /\ pc' = "AwaitingInput") =>
            (attempts' = 0 /\ notices' = NoNotices)
       /\ GuessStep =>
            IF ~is_cancel(guess') /\ is_valid_guess(guess', num_digits)
            THEN /\ attempts' = attempts + 1
                 /\ notices'.feedback = notices.feedback + 1
                 /\ bulls' = Cardinality({i \in 1..num_digits : secret[i] = guess'[i]})
                 /\ (pc' = "Won" <=> bulls' = num_digits)
                 /\ pc' # "Won" => pc' = "AwaitingInput"
                 /\ pc' = "Won" =>
                        /\ outcome' # <<>>
                        /\ outcome'[1] = attempts'
                        /\ outcome'[1] = notices'.feedback
                        /\ outcome'[1] >= 1
            ELSE /\ attempts' = attempts
                 /\ notices'.feedback = notices.feedback
                 /\ pc' # "Won"]_vars

C1_Witness ==
    /\ pc = "Won"
    /\ attempts = 2
    /\ notices.feedback = 2
    /\ notices.invalid = 0
    /\ outcome = <<2, 1>>
    /\ bulls = num_digits

\* C2: an input that is not the cancellation and fails is_valid_guess leaves the
\* round waiting for input with attempts and the secret unchanged, is not scored
\* and prints one rejection; "abc" then "1234" against the secret 1234 gives one
\* rejection and then the win with attempts = 1.
C2_InvalidGuessRejected ==
    [][GuessStep =>
          /\ (~is_cancel(guess') /\ ~is_valid_guess(guess', num_digits)) =>
                /\ pc' = "AwaitingInput"
                /\ attempts' = attempts
                /\ secret' = secret
                /\ notices' = Printed(notices, "invalid")
                /\ outcome' = outcome
          /\ (/\ secret = <<"1", "2", "3", "4">>
              /\ guess = <<"a", "b", "c">>
              /\ notices = Printed(NoNotices, "invalid")
              /\ guess' = <<"1", "2", "3", "4">>) =>
                /\ pc' = "Won"
                /\ attempts' = 1
                /\ outcome'[1] = 1
                /\ notices'.invalid = 1]_vars

C2_Witness ==
    /\ pc = "AwaitingInput"
    /\ secret = <<"1", "2", "3", "4">>
    /\ guess = <<"a", "b", "c">>
    /\ notices = Printed(NoNotices, "invalid")
    /\ attempts = 0

\* C3: while a round waits for input, whatever was guessed before, the line q or Q
\* (blanks trimmed) ends the round as cancelled with no outcome, and the statistics,
\* in memory and in the file, are after the cancelled round what they were before
\* it, for the guest and for logged-in users.
C3_QuitCancelsWithoutRecord ==
    [][/\ (GuessStep /\ lower(strip(guess')) = Q) =>
            (pc' = "Cancelled" /\ outcome' = <<>>)
       /\ pc \in {"set_difficulty", "generate_secret_number", "AwaitingInput",
                  "Cancelled"} =>
            (stats' = stats /\ stats_file' = stats_file)
       /\ (pc = "Cancelled" /\ pc' # pc) => pc' = "main_menu"]_vars

C3_Witness ==
    /\ pc = "Cancelled"
    /\ username = Player
    /\ guess = <<"Q">>
    /\ attempts = 1
    /\ notices.invalid = 1
    /\ outcome = <<>>

\* the attempts of the records stored for u, oldest first
StoredAttempts(u) == [i \in 1..Len(stats[u]) |-> stats[u][i].attempts]

\* C4: the records stored for a username are the rounds won under that username,
\* one record per round with the attempts of that round; a round played as guest
\* and a cancelled round add no record for anyone.
C4_RecordsAreRoundsWon ==
    /\ Guest \notin DOMAIN stats
    /\ DOMAIN stats \subseteq DOMAIN won_rounds
    /\ \A u \in DOMAIN won_rounds :
          LET stored == IF u \in DOMAIN stats THEN StoredAttempts(u) ELSE <<>>
          IN  IF pc = "Won" /\ username = u
              THEN won_rounds[u] = Append(stored, attempts)
              ELSE won_rounds[u] = stored

C4_Witness ==
    /\ pc = "main_menu"
    /\ username = Guest
    /\ DOMAIN stats = {Player}
    /\ StoredAttempts(Player) = <<2>>
    /\ won_rounds[Player] = <<2>>

-----------------------------------------------------------------------------
(* generate_secret_number called on its own *)

MaxGenFull == 2        \* every sample is drawn for up to MaxGenFull digits, runs beyond

\* the values sample(population, k) can return: k different members in any order
RECURSIVE sample(_, _)
sample(population, k) ==
    IF k = 0 THEN {<<>>}
    ELSE UNION {{Append(s, x) : x \in population \ {s[i] : i \in 1..Len(s)}} :
                    s \in sample(population, k - 1)}

range(n) == 0..(n - 1)

\* the digit counts generate_secret_number is called with
GenDigits == 2..10

\* the run of n digits that starts at first and goes on in steps of step
Run(n, first, step) == [i \in 1..n |-> (first + (i - 1) * step) % 10]

\* the samples drawn for n digits: all of them while n <= MaxGenFull, beyond that
\* the runs in steps of 1, 3, 7 and 9 from every first digit
GenSamples(n) ==
    IF n <= MaxGenFull
    THEN sample(range(10), n)
    ELSE {Run(n, first, step) : first \in range(10), step \in {1, 3, 7, 9}}

InitGen ==
    /\ NoSession
    /\ pc = "generate_secret_number"
    /\ num_digits \in GenDigits
    /\ secret = NoneStr /\ guess = NoneStr
    /\ valid = None /\ bulls = None /\ cows = None

SampleGen == SampleFrom(GenSamples(num_digits))

NextGen == SampleGen

SpecGen == InitGen /\ [][NextGen]_vars

\* C11: for num_digits in 2..10 and whatever is sampled, the string returned by
\* generate_secret_number has exactly num_digits characters, all decimal digits,
\* no two alike, the first one not '0'; a sample whose first digit is 0 is not
\* returned, the loop samples again.
C11_SecretIsDistinctDigitsNoLeadingZero ==
    [][(pc = "generate_secret_number" /\ num_digits \in GenDigits) =>
          IF number'[1] = 0
          THEN pc' = "generate_secret_number" /\ secret' = secret
          ELSE /\ pc' = "AwaitingInput"
               /\ Len(secret') = num_digits
               /\ \A i \in 1..num_digits : secret'[i] \in AsciiDigits
               /\ Distinct(secret')
               /\ secret'[1] # "0"
               /\ secret' = join(number')]_vars

C11_Witness ==
    /\ pc = "AwaitingInput"
    /\ num_digits = 10
    /\ number = Run(10, 7, 3)
    /\ secret = <<"7", "0", "3", "6", "9", "2", "5", "8", "1", "4">>

-----------------------------------------------------------------------------
(* The account menus on their own: start without the rounds and the statistics *)

Secret2 == <<"s", "e", "c", "r", "e", "t", "2">>

AccountUsernameLines ==
    UsernameLines \cup {<<"p", "l", "a", "y", "e">>, Player \o <<" ">>}

\* beyond PasswordLines: a second valid password, one of digits only, one whose only
\* digit is SUPERSCRIPT TWO, one of five digits and a padded one
AccountPasswordLines ==
    PasswordLines \cup {Secret2, <<"1", "2", "3", "4", "5", "6">>,
                        <<"s", "e", "c", "r", "e", "u00b2">>,
                        <<"1", "2", "3", "4", "5">>, <<" ">> \o Secret1}

AccountsLogIn == LogInFrom(AccountUsernameLines, AccountPasswordLines)

AccountsSignUp == SignUpFrom(AccountUsernameLines, AccountPasswordLines)

NextAccounts ==
    \/ AccountsLogIn \/ AccountsSignUp \/ StartGuest \/ StartQuit \/ StartOther
    \/ MainLogOut \/ MainOther

SpecAccounts == Init /\ [][NextAccounts]_vars

\* C12: a sign_up call for a registered username, a username of fewer than 6
\* characters or a password of fewer than 6 characters or without a digit (a
\* character str.isdigit accepts) returns False and leaves self.users and the file
\* as they were; any other sign_up adds the one username with the password given
\* and writes the file; no step of any kind changes or removes the entry of a
\* registered username; a log_in call that returns False changes neither the stores
\* nor the menu the program is in.
C12_AccountsOnlyAddedBySignUp ==
    [][/\ \A u \in DOMAIN users : u \in DOMAIN users' /\ users'[u] = users[u]
       /\ (entered' # <<>> /\ entered'[1].op = "sign_up") =>
             LET u == entered'[1].username
                 p == entered'[1].password
                 failing == \/ u \in DOMAIN users
                            \/ Len(u) < 6
                            \/ Len(p) < 6
                            \/ ~\E i \in 1..Len(p) : isdigit(<<p[i]>>)
             IN  /\ entered'[1].result = ~failing
                 /\ failing => (users' = users /\ users_file' = users_file)
                 /\ ~failing =>
                       /\ DOMAIN users' = DOMAIN users \cup {u}
                       /\ users'[u].password = p
                       /\ users_file' = json_dump(users')
       /\ (entered' # <<>> /\ entered'[1].op = "log_in" /\ ~entered'[1].result) =>
             /\ users' = users /\ users_file' = users_file
             /\ stats' = stats /\ stats_file' = stats_file
             /\ pc' = "start" /\ username' = NoneStr
             /\ difficulty' = difficulty]_vars

C12_Witness ==
    /\ entered = Call("sign_up", Player, Secret2, FALSE)
    /\ DOMAIN users = {Player, Player1}
    /\ users[Player].password = Secret1
    /\ users_file = json_dump(users)

-----------------------------------------------------------------------------
(* The stores *)

\* the program waits for a line at a menu, at the difficulty prompt or at the guess prompt
AtPrompt == pc \in {"start", "main_menu", "set_difficulty", "AwaitingInput"}

\* C13: whenever the program waits at a menu or at the guess prompt, stats.json holds
\* the document of self.stats and users.json the document of self.users, and loading
\* the files gives the two dicts back.
C13_WriteThrough ==
    AtPrompt =>
        /\ stats_file = json_dump(stats)
        /\ json_load(stats_file) = stats
        /\ users_file = json_dump(users)
        /\ json_load(users_file) = users

C13_Witness ==
    /\ pc = "AwaitingInput"
    /\ username = Guest
    /\ DOMAIN users = {Player, Player1}
    /\ DOMAIN stats = {Player}
    /\ Len(stats[Player]) = 1
    /\ stats_file = {<<Player, stats[Player]>>}

\* the record add_game_result stores for the call c
StoredFor(c) ==
    [attempts |-> c.attempts, duration |-> c.duration, timestamp |-> isoformat(c.at)]

\* C14: the list stored for a username only grows at its end: an add_game_result
\* call for u appends its one record to u's list and leaves the lists of all other
\* usernames as they were, no step of any kind removes, changes or moves a stored
\* record, and as the clock never goes back the timestamps of each list never
\* decrease along the list.
C14_StatsAppendOnly ==
    [][/\ \A u \in DOMAIN stats :
             /\ u \in DOMAIN stats'
             /\ Len(stats'[u]) >= Len(stats[u])
             /\ SubSeq(stats'[u], 1, Len(stats[u])) = stats[u]
       /\ calls' # calls =>
             LET c == calls'[Len(calls')]
                 old == IF c.username \in DOMAIN stats THEN stats[c.username] ELSE <<>>
             IN  /\ DOMAIN stats' = DOMAIN stats \cup {c.username}
                 /\ stats'[c.username] = Append(old, StoredFor(c))
                 /\ \A v \in DOMAIN stats' \ {c.username} : stats'[v] = stats[v]
       /\ calls' = calls => stats' = stats
       /\ \A u \in DOMAIN stats' : \A i, j \in 1..Len(stats'[u]) :
             i < j => fromisoformat(stats'[u][i].timestamp)
                          <= fromisoformat(stats'[u][j].timestamp)]_vars

C14_Witness ==
    /\ DOMAIN stats = {Player1}
    /\ Len(stats[Player1]) = 2
    /\ stats[Player1][1].attempts = 1
    /\ stats[Player1][2].attempts = 2
    /\ fromisoformat(stats[Player1][1].timestamp) < fromisoformat(stats[Player1][2].timestamp)

-----------------------------------------------------------------------------
(* The menus *)

\* C15: the program ends only from the start menu, by the choice that changes
\* nothing else (Quit); a round won or cancelled returns to the main menu, q at the
\* difficulty prompt returns to the main menu, a log_in or sign_up that returns False
\* and any other choice leave the program at the start menu, Log out leads from the
\* main menu to the start menu, and once ended the program takes no step.
C15_EndsOnlyByQuit ==
    [][/\ (pc' = "terminated" /\ pc # "terminated") =>
             /\ pc = "start"
             /\ entered' = <<>>
             /\ username' = NoneStr
             /\ stores' = stores
       /\ pc = "terminated" => pc' = "terminated"
       /\ pc = "start" => pc' \in {"start", "main_menu", "terminated"}
       /\ (entered' # <<>> /\ ~entered'[1].result) => pc' = "start"
       /\ (entered' # <<>> /\ entered'[1].op = "sign_up") => pc' = "start"
       /\ pc = "main_menu" => pc' \in {"main_menu", "set_difficulty", "start"}
       /\ pc = "set_difficulty" =>
             pc' \in {"set_difficulty", "main_menu", "generate_secret_number"}
       /\ pc = "generate_secret_number" =>
             pc' \in {"generate_secret_number", "AwaitingInput"}
       /\ pc = "AwaitingInput" => pc' \in {"AwaitingInput", "Won", "Cancelled"}
       /\ pc = "Won" => pc' \in {"Won", "main_menu"}
       /\ pc = "Cancelled" => pc' \in {"Cancelled", "main_menu"}]_vars

C15_Witness ==
    /\ pc = "terminated"
    /\ username = NoneStr
    /\ DOMAIN users = {Player, Player1}
    /\ DOMAIN stats = {Player1}
    /\ now = 1

\* a round is on: play has been called and main_menu has not yet got its result
InRound == pc \in {"generate_secret_number", "AwaitingInput", "Won", "Cancelled"}

\* C16: the difficulty is 4 until a line 1, 2 or 3 at the difficulty prompt makes it
\* 3, 4 or 5; any other line but q keeps it and the round starts all the same with
\* num_digits the difficulty, one of 3, 4 and 5, and a secret of that length; q (or Q)
\* starts no round and keeps the difficulty; nothing else changes the difficulty.
C16_RoundUsesChosenDifficulty ==
    /\ difficulty = 4
    /\ [][/\ (pc = "set_difficulty" /\ pc' # pc) =>
                IF choice' \in {<<"q">>, <<"Q">>}
                THEN pc' = "main_menu" /\ difficulty' = difficulty
                ELSE /\ pc' = "generate_secret_number"
                     /\ choice' = <<"1">> => difficulty' = 3
                     /\ choice' = <<"2">> => difficulty' = 4
                     /\ choice' = <<"3">> => difficulty' = 5
                     /\ choice' \notin {<<"1">>, <<"2">>, <<"3">>} => difficulty' = difficulty
          /\ pc # "set_difficulty" => difficulty' = difficulty
          /\ InRound' => (InRound \/ pc = "set_difficulty")
          /\ InRound' =>
                /\ num_digits' = difficulty'
                /\ num_digits' \in {3, 4, 5}
          /\ pc' = "AwaitingInput" => Len(secret') = num_digits']_vars

C16_Witness ==
    /\ pc = "generate_secret_number"
    /\ choice = <<"4">>
    /\ difficulty = 5
    /\ num_digits = 5
    /\ username = Player

\* C17: in a round, a guess of num_digits different decimal digits of which the
\* first is 0 is counted as an attempt and scored, and the round goes on waiting
\* for input with bulls < num_digits, since the secret of a round does not start
\* with 0.
C17_LeadingZeroGuessNeverWins ==
    [][/\ pc' = "AwaitingInput" => secret'[1] # "0"
       /\ (/\ GuessStep
           /\ Len(guess') = num_digits
           /\ \A i \in 1..Len(guess') : guess'[i] \in AsciiDigits
           /\ Distinct(guess')
           /\ guess'[1] = "0") =>
             /\ valid'
             /\ attempts' = attempts + 1
             /\ notices' = Printed(notices, "feedback")
             /\ bulls' < num_digits
             /\ pc' = "AwaitingInput"
             /\ outcome' = <<>>]_vars

C17_Witness ==
    /\ pc = "AwaitingInput"
    /\ secret = <<"1", "2", "3", "4">>
    /\ guess = <<"0", "2", "3", "4">>
    /\ valid = TRUE
    /\ attempts = 2
    /\ bulls = 3 /\ cows = 0

\* C18: the stores being empty at the start, every username with a list in the
\* statistics is registered, and "guest" is neither registered nor has a list in
\* the statistics.
C18_StatsKeysAreRegistered ==
    /\ DOMAIN stats \subseteq DOMAIN users
    /\ Guest \notin DOMAIN users
    /\ Guest \notin DOMAIN stats
    /\ \A u \in DOMAIN users : should_record(u, <<1, 0>>)

C18_Witness ==
    /\ entered = Call("sign_up", Guest, Secret1, FALSE)
    /\ DOMAIN users = {Player, Player1}
    /\ DOMAIN stats = {Player1}
    /\ DOMAIN won_rounds = {Player1}

\* C19: the main menu is entered from the start menu under a username other than
\* "guest" only by a log_in call that names a registered username and its stored
\* password, and every such call enters it; a sign_up call leaves the program at the
\* start menu with nobody logged in; q (or Q) at the username prompt makes no call,
\* registers nobody and logs nobody in; a session keeps its username until Log out.
C19_SessionOnlyByLogIn ==
    [][/\ (pc = "start" /\ pc' = "main_menu" /\ username' # Guest) =>
             /\ username' \in DOMAIN users
             /\ entered' = Call("log_in", username', users[username'].password, TRUE)
       /\ (entered' # <<>> /\ entered'[1].op = "log_in") =>
             LET u == entered'[1].username
                 matches == u \in DOMAIN users /\ users[u].password = entered'[1].password
             IN  /\ entered'[1].result = matches
                 /\ matches => (pc' = "main_menu" /\ username' = u)
                 /\ ~matches => (pc' = "start" /\ username' = NoneStr)
                 /\ users' = users
       /\ (entered' # <<>> /\ entered'[1].op = "sign_up") =>
             (pc' = "start" /\ username' = NoneStr)
       /\ entered' # <<>> => entered'[1].username \notin {<<"q">>, <<"Q">>}
       /\ (pc = "start" /\ entered' = <<>>) =>
             /\ users' = users
             /\ pc' = "main_menu" => username' = Guest
       /\ pc # "start" =>
             \/ username' = username
             \/ pc = "main_menu" /\ pc' = "start" /\ username' = NoneStr]_vars

C19_Witness ==
    /\ pc = "main_menu"
    /\ username = Player1
    /\ entered = Call("log_in", Player1, Secret1, TRUE)
    /\ DOMAIN users = {Player, Player1}
    /\ DOMAIN stats = {Player}

====
